---- MODULE Spec2Model ----
(***************************************************************************)
(* A state-machine model of gpu-finder.py: zone discovery, configuration   *)
(* validation, capability and quota filtering, the provisioning loop       *)
(* (create_instance) and teardown (delete_instance), sequenced by main.    *)
(*                                                                         *)
(* Python strings are modelled as sequences of one-character strings so    *)
(* that slicing, find, strip, int() and str() are computed, not assumed.   *)
(***************************************************************************)
EXTENDS Integers, Sequences, FiniteSets, TLC

\* ------------------------------------------------------------------ bounds
MaxInstances == 3
MaxGpus == 2
MaxList == 3
PageSize == 2

\* ------------------------------------------------------- Python str helpers
Whitespace == {" ", "\t", "\n"}
Digits == <<"0", "1", "2", "3", "4", "5", "6", "7", "8", "9">>

Min(a, b) == IF a < b THEN a ELSE b
Max(a, b) == IF a > b THEN a ELSE b

\* s[a:b] with Python's treatment of negative and out-of-range indices
PySlice(s, a, b) ==
    LET n == Len(s)
        lo == IF a < 0 THEN Max(n + a, 0) ELSE Min(a, n)
        hi == IF b < 0 THEN Max(n + b, 0) ELSE Min(b, n)
    IN  IF lo >= hi THEN <<>> ELSE SubSeq(s, lo + 1, hi)

\* s.startswith(p)
StartsWith(s, p) == Len(s) >= Len(p) /\ SubSeq(s, 1, Len(p)) = p

\* s.find(p): 0-based index of the first occurrence, -1 when absent
PyFind(s, p) ==
    LET hits == {k \in 0..(Len(s) - Len(p)) : SubSeq(s, k + 1, k + Len(p)) = p}
    IN  IF hits = {} THEN -1 ELSE CHOOSE k \in hits : \A h \in hits : k <= h

\* s.strip()
PyStrip(s) ==
    LET keep == {k \in 1..Len(s) : s[k] \notin Whitespace}
    IN  IF keep = {} THEN <<>>
        ELSE LET lo == CHOOSE k \in keep : \A h \in keep : k <= h
                 hi == CHOOSE k \in keep : \A h \in keep : k >= h
             IN  SubSeq(s, lo, hi)

DigitValue(c) == (CHOOSE k \in 1..10 : Digits[k] = c) - 1
IsDigit(c) == \E k \in 1..10 : Digits[k] = c

RECURSIVE DigitsValue(_)
DigitsValue(s) ==
    IF s = <<>> THEN 0
    ELSE 10 * DigitsValue(SubSeq(s, 1, Len(s) - 1)) + DigitValue(s[Len(s)])

\* int(s): surrounding whitespace ignored, optional sign, then decimal digits;
\* anything else is a ValueError
PyInt(s) ==
    LET t == PyStrip(s)
        signed == t # <<>> /\ t[1] \in {"+", "-"}
        body == IF signed THEN Tail(t) ELSE t
    IN  IF body # <<>> /\ \A k \in 1..Len(body) : IsDigit(body[k])
        THEN [ok |-> TRUE,
              val |-> IF signed /\ t[1] = "-" THEN 0 - DigitsValue(body)
                      ELSE DigitsValue(body)]
        ELSE [ok |-> FALSE, val |-> 0]

\* str(n) for n >= 0
RECURSIVE PyStr(_)
PyStr(n) ==
    IF n < 10 THEN <<Digits[n + 1]>>
    ELSE PyStr(n \div 10) \o <<Digits[(n % 10) + 1]>>

\* ------------------------------------------------------- the modelled cloud
A2HighGpuPrefix == <<"a", "2", "-", "h", "i", "g", "h", "g", "p", "u", "-">>
HighGpuType(k) == A2HighGpuPrefix \o PyStr(k) \o <<"g">>
A2MegaGpu16 == <<"a", "2", "-", "m", "e", "g", "a", "g", "p", "u", "-", "1", "6", "g">>
N1Standard8 == <<"n", "1", "-", "s", "t", "a", "n", "d", "a", "r", "d", "-", "8">>
GpuA100 == "nvidia-tesla-a100"
GpuT4 == "nvidia-tesla-t4"

ZoneRaA == <<"r", "a", "-", "a">>
ZoneRaB == <<"r", "a", "-", "b">>
ZoneRbA == <<"r", "b", "-", "a">>
ZoneNames == <<ZoneRaA, ZoneRaB, ZoneRbA>>

\* GPU counts a configuration may ask for: the small ones and a two-digit one
GpuCounts == 1..MaxGpus \cup {16}
MachineTypes == {HighGpuType(k) : k \in GpuCounts} \cup {A2MegaGpu16, N1Standard8}

\* machineTypes.list of a zone: the a2 types carry an accelerator, n1 does not;
\* the second zone of region ra offers no two-GPU machine
MachineCatalog(zone) ==
    LET a2 == [k \in 1..MaxGpus |->
                 [name |-> HighGpuType(k), hasAccelerators |-> TRUE,
                  guestAcceleratorType |-> GpuA100, guestCpus |-> 12 * k]]
        offered == IF zone = ZoneRaB THEN SubSeq(a2, 1, 1) ELSE a2
    IN  <<[name |-> N1Standard8, hasAccelerators |-> FALSE,
           guestAcceleratorType |-> "", guestCpus |-> 8]>> \o offered

\* acceleratorTypes.list of a zone
AcceleratorCatalog(zone) ==
    <<[name |-> GpuT4, maximumCardsPerInstance |-> 4],
      [name |-> GpuA100,
       maximumCardsPerInstance |-> IF zone = ZoneRbA THEN 1 ELSE MaxGpus]>>

\* a paginated list: the pages a list / list_next chain hands out
RECURSIVE Pages(_)
Pages(items) ==
    IF Len(items) <= PageSize THEN <<items>>
    ELSE <<SubSeq(items, 1, PageSize)>> \o Pages(SubSeq(items, PageSize + 1, Len(items)))

RECURSIVE Flatten(_)
Flatten(pages) == IF pages = <<>> THEN <<>> ELSE Head(pages) \o Flatten(Tail(pages))

\* The cloud's answers to successive instances.insert calls and their polled
\* operations: "OK" (operation DONE), "OPERR" (operation DONE with an error),
\* "QUOTA403" (HTTP 403 "Quota exceeded"), "OTHER403" (another HTTP 403),
\* "HTTP500" (another HTTP status).  Calls past the script's end succeed.
InsertScripts ==
    {<<"OK", "OK">>, <<"OK", "QUOTA403">>, <<"QUOTA403", "OK">>,
     <<"OK", "HTTP500">>, <<"OTHER403", "OK">>, <<"OK", "OPERR">>}


\* ------------------------------------------------------------------- state
VARIABLES
    config,             \* gpu_config: the instance_config fields and number_of_instances
    wait,               \* main's wait parameter
    zone_status,        \* the cloud: status of every zone
    insertScript,       \* the cloud: its answer to the k-th instances.insert call
    pc,                 \* position of the run
    error,              \* the exception that ended the run, "none" otherwise
    apiLog,             \* every API request issued so far, in order
    compute_zones,      \* main: zone descriptors
    available_zones,    \* main: capability records
    accelerators,       \* main: quota records (create_instance's zone_list)
    cursor,             \* index of the zone a filter loop is at
    regions_to_try, created_instances, instances, regions_attempted,
    region, zones, zones_attempted, move_regions, zone_config, j, instance_name,
    instance_details,   \* delete_instance's argument
    i,                  \* delete_instance's loop index (1-based here)
    operation           \* the operation delete_instance is polling, "none" otherwise

envVars == <<config, wait, zone_status, insertScript>>
mainVars == <<compute_zones, available_zones, accelerators, cursor>>
createVars == <<regions_to_try, created_instances, instances, regions_attempted,
                region, zones, zones_attempted, move_regions, zone_config, j,
                instance_name>>
deleteVars == <<instance_details, i, operation>>
vars == <<envVars, pc, error, apiLog, mainVars, createVars, deleteVars>>

\* one API request as it is logged
Call(op, zone, name, result) == [op |-> op, zone |-> zone, name |-> name, result |-> result]

\* the requests of a paginated listing of n pages; failAt = 0 when none fails,
\* else the page whose execute() raises
ListCalls(op, zone, n, failAt) ==
    [k \in 1..(IF failAt = 0 THEN n ELSE failAt) |->
        Call(op, zone, <<>>, IF k = failAt THEN "HttpError" ELSE "ok")]

NoRecord == [name |-> <<>>, zone |-> <<>>]

ConfigInit ==
    /\ config \in [machine_type : MachineTypes, gpu_type : {GpuA100},
                   number_of_gpus : GpuCounts,
                   number_of_instances : 0..MaxInstances,
                   name : {<<>>, <<" ">>, <<"g", "p", "u">>},
                   zone : {<<>>, <<ZoneRaA>>},
                   gpu_machine_type_mapping : {<<>>, HighGpuType(1)}]
    /\ wait \in BOOLEAN
    /\ zone_status \in {[z \in 1..Len(ZoneNames) |-> "UP"],
                        [z \in 1..Len(ZoneNames) |->
                            IF ZoneNames[z] = ZoneRaB THEN "DOWN" ELSE "UP"]}
    /\ insertScript \in InsertScripts

LocalsInit ==
    /\ error = "none"
    /\ apiLog = <<>>
    /\ compute_zones = <<>>
    /\ available_zones = <<>>
    /\ accelerators = <<>>
    /\ cursor = 1
    /\ regions_to_try = <<>>
    /\ created_instances = <<>>
    /\ instances = 0
    /\ regions_attempted = 0
    /\ region = <<>>
    /\ zones = <<>>
    /\ zones_attempted = 0
    /\ move_regions = 0
    /\ zone_config = NoRecord
    /\ j = 0
    /\ instance_name = <<>>
    /\ i = 1
    /\ operation = "none"

\* the state main starts in
Init ==
    /\ ConfigInit
    /\ LocalsInit
    /\ pc = "main"
    /\ instance_details = <<>>

\* ------------------------------------------------------------ check_gpu_config
\* check_gpu_config with the slice starting one character early, on the dash
check_gpu_config_off_by_one(cfg) ==
    IF StartsWith(cfg.machine_type, <<"a", "2">>)
    THEN LET parsed ==
                 PyInt(PySlice(cfg.machine_type,
                               PyFind(cfg.machine_type,
                                      <<"h", "i", "g", "h", "g", "p", "u">>) + 7,
                               Len(cfg.machine_type) - 1))
         IN  IF ~parsed.ok THEN "ValueError"
             ELSE IF cfg.number_of_gpus # parsed.val THEN "ConfigError"
             ELSE "ok"
    ELSE "ok"

\* "ok", or the exception raised
check_gpu_config(cfg) ==
    IF StartsWith(cfg.machine_type, <<"a", "2">>)
    THEN LET number_of_gpus_requested == cfg.number_of_gpus
             gpus_in_machine_type ==
                 PySlice(cfg.machine_type,
                         PyFind(cfg.machine_type, <<"h", "i", "g", "h", "g", "p", "u">>) + 8,
                         Len(cfg.machine_type) - 1)
             parsed == PyInt(gpus_in_machine_type)
         IN  IF ~parsed.ok THEN "ValueError"
             ELSE IF number_of_gpus_requested # parsed.val THEN "ConfigError"
             ELSE "ok"
    ELSE "ok"

\* --------------------------------------------------------------- get_zone_info
ZoneItems == [z \in 1..Len(ZoneNames) |-> [name |-> ZoneNames[z], status |-> zone_status[z]]]

ZoneDescriptor(zone) ==
    [region |-> PySlice(zone.name, 0, Len(zone.name) - 2), zone |-> zone.name]

\* the zone_list get_zone_info returns once every page was read
get_zone_info ==
    LET items == Flatten(Pages(ZoneItems))
        up == SelectSeq(items, LAMBDA zone : zone.status = "UP")
    IN  [k \in 1..Len(up) |-> ZoneDescriptor(up[k])]

InList(x, list) == \E k \in 1..Len(list) : list[k] = x

\* main, lines 254-261: discover the zones, filtered to the configured ones
ZoneDiscovery ==
    /\ pc = "main"
    /\ \E failAt \in 0..Len(Pages(ZoneItems)) :
          /\ apiLog' = apiLog \o ListCalls("zones.list", <<>>, Len(Pages(ZoneItems)), failAt)
          /\ IF failAt # 0
             THEN /\ pc' = "failed"
                  /\ error' = "HttpError"
                  /\ UNCHANGED compute_zones
             ELSE /\ pc' = "check_gpu_config"
                  /\ UNCHANGED error
                  /\ compute_zones' =
                        IF config.zone # <<>>
                        THEN SelectSeq(get_zone_info, LAMBDA z : InList(z.zone, config.zone))
                        ELSE get_zone_info
    /\ UNCHANGED <<envVars, available_zones, accelerators, cursor, createVars, deleteVars>>

\* main, line 262
CheckGpuConfig ==
    /\ pc = "check_gpu_config"
    /\ IF check_gpu_config(config) = "ok"
       THEN pc' = "capability" /\ UNCHANGED error
       ELSE pc' = "failed" /\ error' = check_gpu_config(config)
    /\ cursor' = 1
    /\ UNCHANGED <<envVars, apiLog, compute_zones, available_zones, accelerators,
                   createVars, deleteVars>>


\* ------------------------------------------- check_machine_type_and_accelerator
\* the capability records one zone's machine-type catalog contributes
ZoneCapabilities(zone, machine_type, gpu_type) ==
    LET items == Flatten(Pages(MachineCatalog(zone.zone)))
        matching == SelectSeq(items, LAMBDA machine :
                        \/ /\ machine.hasAccelerators
                           /\ machine.name = machine_type
                           /\ machine.guestAcceleratorType = gpu_type
                        \/ machine.name = machine_type)
    IN  [k \in 1..Len(matching) |->
            [machine_type |-> matching[k].name,
             region |-> zone.region,
             zone |-> zone.zone,
             guest_cpus |-> matching[k].guestCpus,
             accelerators |-> /\ matching[k].hasAccelerators
                              /\ matching[k].guestAcceleratorType = gpu_type]]

\* one iteration of the loop over zone_list, lines 54-78
CheckMachineTypeZone ==
    /\ pc = "capability"
    /\ cursor <= Len(compute_zones)
    /\ LET zone == compute_zones[cursor]
           n == Len(Pages(MachineCatalog(zone.zone)))
       IN  \E failAt \in 0..n :
             /\ apiLog' = apiLog \o ListCalls("machineTypes.list", zone.zone, n, failAt)
             /\ IF failAt # 0
                THEN /\ pc' = "failed"
                     /\ error' = "HttpError"
                     /\ UNCHANGED <<available_zones, cursor>>
                ELSE /\ available_zones' = available_zones \o
                            ZoneCapabilities(zone, config.machine_type, config.gpu_type)
                     /\ cursor' = cursor + 1
                     /\ UNCHANGED <<pc, error>>
    /\ UNCHANGED <<envVars, compute_zones, accelerators, createVars, deleteVars>>

\* lines 79-81
CapabilityDone ==
    /\ pc = "capability"
    /\ cursor > Len(compute_zones)
    /\ IF available_zones = <<>>
       THEN pc' = "failed" /\ error' = "NoMachineType"
       ELSE pc' = "quota" /\ UNCHANGED error
    /\ cursor' = 1
    /\ UNCHANGED <<envVars, apiLog, compute_zones, available_zones, accelerators,
                   createVars, deleteVars>>

\* --------------------------------------------------------- get_accelerator_quota
\* the quota records one capability record's accelerator catalog contributes
ZoneQuota(rec, gpu_type, requested_gpus) ==
    LET items == Flatten(Pages(AcceleratorCatalog(rec.zone)))
        fitting == SelectSeq(items, LAMBDA accelerator :
                       /\ accelerator.name = gpu_type
                       /\ requested_gpus <= accelerator.maximumCardsPerInstance)
    IN  [k \in 1..Len(fitting) |->
            [region |-> rec.region,
             zone |-> rec.zone,
             machine_type |-> rec.machine_type,
             guest_cpus |-> rec.guest_cpus,
             name |-> fitting[k].name,
             maximum |-> fitting[k].maximumCardsPerInstance]]

\* one iteration of the loop over zone_list, lines 86-108
GetAcceleratorQuotaZone ==
    /\ pc = "quota"
    /\ cursor <= Len(available_zones)
    /\ LET rec == available_zones[cursor]
           n == Len(Pages(AcceleratorCatalog(rec.zone)))
       IN  \E failAt \in 0..n :
             /\ apiLog' = apiLog \o ListCalls("acceleratorTypes.list", rec.zone, n, failAt)
             /\ IF failAt # 0
                THEN /\ pc' = "failed"
                     /\ error' = "HttpError"
                     /\ UNCHANGED <<accelerators, cursor>>
                ELSE /\ accelerators' = accelerators \o
                            ZoneQuota(rec, config.gpu_type, config.number_of_gpus)
                     /\ cursor' = cursor + 1
                     /\ UNCHANGED <<pc, error>>
    /\ UNCHANGED <<envVars, compute_zones, available_zones, createVars, deleteVars>>

\* the distinct regions of a record list, as a set
Regions(list) == {list[k].region : k \in 1..Len(list)}

\* the orders list(set) may give a set's elements
Orderings(S) ==
    {f \in [1..Cardinality(S) -> S] : \A a, b \in 1..Cardinality(S) : a # b => f[a] # f[b]}

\* lines 109-111, then main lines 266-269 and create_instance lines 115-120
QuotaDone ==
    /\ pc = "quota"
    /\ cursor > Len(available_zones)
    /\ IF accelerators = <<>>
       THEN /\ pc' = "failed"
            /\ error' = "NoAccelerator"
            /\ UNCHANGED createVars
       ELSE IF Regions(available_zones) = {}
       THEN /\ pc' = "done"
            /\ UNCHANGED <<error, createVars>>
       ELSE /\ pc' = "region"
            /\ regions_to_try' \in Orderings(Regions(accelerators))
            /\ created_instances' = <<>>
            /\ instances' = 0
            /\ regions_attempted' = 0
            /\ UNCHANGED <<error, region, zones, zones_attempted, move_regions,
                           zone_config, j, instance_name>>
    /\ cursor' = 1
    /\ UNCHANGED <<envVars, apiLog, compute_zones, available_zones, accelerators,
                   deleteVars>>


\* --------------------------------------------------------------- create_instance
\* line 147
InstanceName(prefix, count, zone) == prefix \o <<"-">> \o PyStr(count + 1) \o <<"-">> \o zone

\* line 148: not instance_name or not instance_name.strip()
InvalidName(name) == name = <<>> \/ PyStrip(name) = <<>>

\* the target test written with > instead of >=
TargetReachedStrict(count, target) == count > target

\* lines 195 and 204: instances >= compute_config['number_of_instances']
TargetReached(count, target) == count >= target

\* lines 136-141: the machine type the region's requests carry
ResolvedMachineType(cfg) ==
    IF cfg.gpu_machine_type_mapping # <<>> THEN cfg.gpu_machine_type_mapping
    ELSE cfg.machine_type

\* lines 122-141: the head of one iteration of the loop over regions_to_try.  The
\* loop over the region's zones (lines 129-130) only assigns zone_config, so it
\* leaves the region's last zone in it.  regions_attempted counts the finished
\* iterations, so the region at hand is the next one.
RegionStart ==
    /\ pc = "region"
    /\ regions_attempted < Len(regions_to_try)
    /\ LET r == regions_to_try[regions_attempted + 1]
           zs == SelectSeq(accelerators, LAMBDA z : z.region = r)
       IN  /\ region' = r
           /\ zones' = zs
           /\ zone_config' = IF zs = <<>> THEN zone_config ELSE zs[Len(zs)]
    /\ zones_attempted' = 0
    /\ move_regions' = 0
    /\ config' = [config EXCEPT !.machine_type = ResolvedMachineType(config)]
    /\ j' = 0
    /\ pc' = IF 0 < config.number_of_instances THEN "instance" ELSE "region_end"
    /\ UNCHANGED <<wait, zone_status, insertScript, error, apiLog, mainVars,
                   regions_to_try, created_instances, instances, regions_attempted,
                   instance_name, deleteVars>>

\* where the loop over range(number_of_instances) goes after iteration j
AfterIteration == IF j + 1 < config.number_of_instances THEN "instance" ELSE "region_end"

\* the insert requests issued so far
Inserts == SelectSeq(apiLog, LAMBDA c : c.op = "instances.insert")

\* the cloud's answer to the next instances.insert: scripted, then success
NextInsertOutcome ==
    IF Len(Inserts) < Len(insertScript) THEN insertScript[Len(Inserts) + 1] ELSE "OK"

\* Lines 152-201 as they would run one indentation level up, in the loop body
\* and no longer behind the `continue`.  stopAtTarget keeps the test of line 195,
\* countSuccess the increment of line 173.
InsertAttempt(stopAtTarget, countSuccess) ==
    LET name == InstanceName(config.name, instances, zone_config.zone)
        outcome == NextInsertOutcome
        counted == IF countSuccess THEN instances + 1 ELSE instances
    IN  /\ pc = "instance"
        /\ instance_name' = name
        /\ apiLog' = Append(apiLog, Call("instances.insert", zone_config.zone, name, outcome))
        /\ CASE outcome = "OK" ->
                  /\ instances' = counted
                  /\ move_regions' = 0
                  /\ created_instances' =
                        Append(created_instances, [name |-> name, zone |-> zone_config.zone])
                  /\ IF stopAtTarget /\ TargetReached(counted, config.number_of_instances)
                     THEN pc' = "region_end" /\ UNCHANGED <<zones_attempted, j>>
                     ELSE /\ pc' = AfterIteration
                          /\ zones_attempted' = zones_attempted + 1
                          /\ j' = j + 1
                  /\ UNCHANGED error
             [] outcome = "QUOTA403" ->
                  /\ move_regions' = 1
                  /\ pc' = "region_end"
                  /\ UNCHANGED <<instances, created_instances, zones_attempted, j, error>>
             [] outcome = "OTHER403" ->
                  /\ IF stopAtTarget /\ TargetReached(instances, config.number_of_instances)
                     THEN pc' = "region_end" /\ UNCHANGED <<zones_attempted, j>>
                     ELSE /\ pc' = AfterIteration
                          /\ zones_attempted' = zones_attempted + 1
                          /\ j' = j + 1
                  /\ UNCHANGED <<instances, created_instances, move_regions, error>>
             [] OTHER ->
                  /\ pc' = "failed"
                  /\ error' = IF outcome = "OPERR" THEN "OperationError" ELSE "HttpError"
                  /\ UNCHANGED <<instances, created_instances, move_regions,
                                 zones_attempted, j>>
        /\ UNCHANGED <<envVars, mainVars, regions_to_try, regions_attempted, region,
                       zones, zone_config, deleteVars>>

\* the request block reachable, and the target test of line 195 lost
InstanceIterationNoTargetStop == InsertAttempt(FALSE, TRUE)

\* the request block reachable, and the increment of line 173 lost
InstanceIterationNoCount == InsertAttempt(TRUE, FALSE)

\* lines 143-201: one iteration of the loop over range(number_of_instances).
\* Everything from line 152 on is indented under the `if` of line 148, behind
\* its `continue`: when the name is invalid the iteration ends at line 150, and
\* when it is valid the `if` is skipped as a whole.  Either way the iteration
\* issues no request and changes no counter.
InstanceIteration ==
    /\ pc = "instance"
    /\ instance_name' = InstanceName(config.name, instances, zone_config.zone)
    /\ IF InvalidName(instance_name')
       THEN j' = j + 1     \* line 150: continue
       ELSE j' = j + 1     \* the body of the `if` is not entered
    /\ pc' = AfterIteration
    /\ UNCHANGED <<envVars, error, apiLog, mainVars, regions_to_try, created_instances,
                   instances, regions_attempted, region, zones, zones_attempted,
                   move_regions, zone_config, deleteVars>>

\* lines 203-208
RegionEnd ==
    /\ pc = "region_end"
    /\ regions_attempted' = regions_attempted + 1
    /\ pc' = IF TargetReached(instances, config.number_of_instances) THEN "return"
             ELSE IF regions_attempted' >= Len(regions_to_try) THEN "return"
             ELSE "region"
    /\ UNCHANGED <<envVars, error, apiLog, mainVars, regions_to_try, created_instances,
                   instances, region, zones, zones_attempted, move_regions, zone_config,
                   j, instance_name, deleteVars>>

\* line 210, then main lines 269-273 up to the call of delete_instance (lines 215-217)
CreateReturn ==
    /\ pc = "return"
    /\ instance_details' = created_instances
    /\ i' = 1
    /\ pc' = IF wait THEN "input" ELSE "delete"
    /\ UNCHANGED <<envVars, error, apiLog, mainVars, createVars, operation>>

\* main line 272: the operator hits enter
Input ==
    /\ pc = "input"
    /\ pc' = "delete"
    /\ UNCHANGED <<envVars, error, apiLog, mainVars, createVars, deleteVars>>

\* --------------------------------------------------------------- delete_instance
\* lines 218-226: the delete request of entry i
DeleteRequest ==
    /\ pc = "delete"
    /\ i <= Len(instance_details)
    /\ LET instance == instance_details[i]
       IN  \E result \in {"ok", "HttpError"} :
             /\ apiLog' = Append(apiLog,
                                 Call("instances.delete", instance.zone, instance.name, result))
             /\ IF result = "ok"
                THEN pc' = "poll" /\ operation' = "pending" /\ UNCHANGED error
                ELSE pc' = "failed" /\ error' = "HttpError" /\ UNCHANGED operation
    /\ UNCHANGED <<envVars, mainVars, createVars, instance_details, i>>

\* DeletePoll without the raise of line 238: an operation error is passed over
DeletePollIgnoringError ==
    /\ pc = "poll"
    /\ \E result \in {"RUNNING", "DONE", "DONE_ERROR"} :
          IF result = "RUNNING" THEN UNCHANGED <<pc, error, apiLog, i, operation>>
          ELSE /\ apiLog' = Append(apiLog, Call("zoneOperations.get", instance_details[i].zone,
                                                instance_details[i].name, result))
               /\ i' = i + 1
               /\ operation' = "none"
               /\ pc' = "delete"
               /\ UNCHANGED error
    /\ UNCHANGED <<envVars, mainVars, createVars, instance_details>>

\* lines 229-239: one zoneOperations.get of the pending delete operation.  A poll
\* whose answer is not DONE changes nothing and is not logged.
DeletePoll ==
    /\ pc = "poll"
    /\ \E result \in {"RUNNING", "DONE", "DONE_ERROR", "HttpError"} :
          LET instance == instance_details[i]
              logged == Append(apiLog, Call("zoneOperations.get", instance.zone,
                                            instance.name, result))
          IN  CASE result = "RUNNING" ->
                     UNCHANGED <<pc, error, apiLog, i, operation>>
                [] result = "DONE" ->
                     /\ apiLog' = logged
                     /\ i' = i + 1
                     /\ operation' = "none"
                     /\ pc' = "delete"
                     /\ UNCHANGED error
                [] result = "DONE_ERROR" ->
                     /\ apiLog' = logged
                     /\ pc' = "failed"
                     /\ error' = "OperationError"
                     /\ UNCHANGED <<i, operation>>
                [] OTHER ->
                     /\ apiLog' = logged
                     /\ pc' = "failed"
                     /\ error' = "HttpError"
                     /\ UNCHANGED <<i, operation>>
    /\ UNCHANGED <<envVars, mainVars, createVars, instance_details>>

\* the loop of line 217 is exhausted: delete_instance returns and the run ends
DeleteReturn ==
    /\ pc = "delete"
    /\ i > Len(instance_details)
    /\ pc' = "done"
    /\ UNCHANGED <<envVars, error, apiLog, mainVars, createVars, deleteVars>>

\* ------------------------------------------------------------- specifications
\* A run of main.  create_instance hands main an empty list in every run
\* (TeardownListEmpty below), so of delete_instance only the exhausted loop is
\* ever taken here; its loop body is exercised by SpecTeardown.
Next ==
    \/ ZoneDiscovery
    \/ CheckGpuConfig
    \/ CheckMachineTypeZone
    \/ CapabilityDone
    \/ GetAcceleratorQuotaZone
    \/ QuotaDone
    \/ RegionStart
    \/ InstanceIteration
    \/ RegionEnd
    \/ CreateReturn
    \/ Input
    \/ DeleteReturn

Spec == Init /\ [][Next]_vars

\* delete_instance called on its own with any list of created-instance records
Records ==
    {[name |-> InstanceName(<<"g">>, k, z), zone |-> z] : k \in 0..1, z \in {ZoneRaA, ZoneRbA}}

RecordLists == UNION {[1..n -> Records] : n \in 0..MaxList}

TeardownInit ==
    /\ config = [machine_type |-> N1Standard8, gpu_type |-> GpuA100, number_of_gpus |-> 1,
                 number_of_instances |-> 0, name |-> <<"g">>, zone |-> <<>>,
                 gpu_machine_type_mapping |-> <<>>]
    /\ wait = FALSE
    /\ zone_status = [z \in 1..Len(ZoneNames) |-> "UP"]
    /\ insertScript = <<>>
    /\ LocalsInit
    /\ pc = "delete"
    /\ instance_details \in RecordLists

TeardownNext == DeleteRequest \/ DeletePoll \/ DeleteReturn

SpecTeardown == TeardownInit /\ [][TeardownNext]_vars


\* --------------------------------------------------------------------- claims
Deletes == SelectSeq(apiLog, LAMBDA c : c.op = "instances.delete")
Target(c) == [name |-> c.name, zone |-> c.zone]
Target_of(list) == [k \in 1..Len(list) |-> Target(list[k])]
OkInserts == SelectSeq(Inserts, LAMBDA c : c.result = "OK")
RegionOf(zone) == PySlice(zone, 0, Len(zone) - 2)
ReturnedNormally == pc \in {"return", "input", "delete", "done"}

\* In a run of main, delete_instance is only ever handed the empty list.
TeardownListEmpty == instance_details = <<>>

\* C1: in every state of the provisioning loop, whatever the candidate regions
\* and zones and whatever the cloud answers, the number of created-instance
\* records (and so of the records handed to teardown) is at most
\* number_of_instances, counted over the whole loop.
C1_CreatedNeverExceedsTarget ==
    /\ Len(created_instances) <= config.number_of_instances
    /\ Len(instance_details) <= config.number_of_instances

\* create_instance has gone through two regions holding three zones
C1_Witness ==
    /\ pc = "return"
    /\ regions_attempted = 2
    /\ Len(accelerators) = 3
    /\ config.number_of_instances >= 2
    /\ Len(created_instances) <= config.number_of_instances

\* C2 (as claimed): with two candidate regions of one zone each and a target of
\* 3, when the cloud answers the first insert with success and the second with
\* 403 "Quota exceeded", create_instance keeps exactly one record of the first
\* region and sends a later insert to the second region.
C2_QuotaMovesToNextRegion ==
    ( /\ pc = "return"
      /\ config.number_of_instances = 3
      /\ Len(accelerators) = 2
      /\ Len(regions_to_try) = 2
      /\ insertScript = <<"OK", "QUOTA403">> )
    => /\ Cardinality({k \in 1..Len(created_instances) :
                          RegionOf(created_instances[k].zone) = regions_to_try[1]}) = 1
       /\ \E k \in 1..Len(Inserts) : RegionOf(Inserts[k].zone) = regions_to_try[2]

\* C3: once the created-instance counter has reached number_of_instances, no
\* insert request is issued any more and the region loop is left at its next
\* test instead of going on to another region.
C3_StopsAtTarget ==
    [][ ( /\ pc \in {"region", "instance", "region_end"}
          /\ instances >= config.number_of_instances )
        => /\ Len(Inserts') = Len(Inserts)
           /\ pc' # "region"
           /\ (pc = "region_end" => pc' = "return") ]_vars

\* the loop was left with the target reached and a candidate region unexplored
C3_Witness ==
    /\ pc = "return"
    /\ instances >= config.number_of_instances
    /\ regions_attempted = 1
    /\ Len(regions_to_try) = 2

\* C4: the delete requests issued so far are the first entries of the list, one
\* request per entry and in list order; a request is followed by the poll that
\* saw its operation DONE before anything else is requested; when the loop ends
\* normally every entry was requested; an operation that finished with an
\* error is the last thing requested and ends the teardown with that error.
C4_TeardownSequential ==
    /\ Len(Deletes) <= Len(instance_details)
    /\ Target_of(Deletes) = SubSeq(instance_details, 1, Len(Deletes))
    /\ pc = "done" => Len(Deletes) = Len(instance_details)
    /\ \A k \in 1..Len(apiLog) :
          /\ (apiLog[k].op = "instances.delete" /\ k < Len(apiLog))
                => /\ apiLog[k].result = "ok"
                   /\ apiLog[k + 1].op = "zoneOperations.get"
                   /\ Target(apiLog[k + 1]) = Target(apiLog[k])
          /\ (apiLog[k].op = "zoneOperations.get" /\ k < Len(apiLog))
                => apiLog[k].result = "DONE"
          /\ apiLog[k].result = "DONE_ERROR"
                => /\ k = Len(apiLog)
                   /\ pc = "failed"
                   /\ error = "OperationError"

\* the second of three deletions finished with an error; the third was not requested
C4_Witness ==
    /\ pc = "failed"
    /\ error = "OperationError"
    /\ Len(instance_details) = 3
    /\ Len(Deletes) = 2
    /\ apiLog[Len(apiLog)].result = "DONE_ERROR"

C6_RoundTrip ==
    ( /\ pc = "done"
      /\ config.number_of_instances >= 1
      /\ Len(accelerators) = 1
      /\ \A k \in 1..Len(insertScript) :
            k <= config.number_of_instances => insertScript[k] = "OK" )
    => LET expected == [k \in 1..config.number_of_instances |->
                           [name |-> InstanceName(config.name, k - 1, accelerators[1].zone),
                            zone |-> accelerators[1].zone]]
       IN  /\ instance_details = expected
           /\ Target_of(Deletes) = expected

\* states in which the configuration is still the one main was given
Rejected == pc = "failed" /\ error = "ConfigError"
OnlyZoneListing == \A k \in 1..Len(apiLog) : apiLog[k] = Call("zones.list", <<>>, <<>>, "ok")
PastValidation ==
    \/ pc \in {"capability", "quota"}
    \/ pc = "failed" /\ error \in {"NoMachineType", "NoAccelerator"}
    \/ pc = "failed" /\ error = "HttpError" /\ ~OnlyZoneListing /\ Len(apiLog) > Len(Pages(ZoneItems))

\* C7 (as claimed): a high-GPU configuration whose embedded number differs from
\* number_of_gpus is rejected before any cloud API request.
C7_RejectedBeforeAnyApiCall == Rejected => apiLog = <<>>

\* C7 (amended): for a machine type a2-highgpu-<k>g, the run rejects the
\* configuration exactly when k differs from number_of_gpus; the rejection
\* comes after the zones.list requests of zone discovery and before any
\* machineTypes.list, acceleratorTypes.list, insert or delete request.
C7_RejectedAfterZoneDiscoveryOnly ==
    \A k \in GpuCounts :
        config.machine_type = HighGpuType(k) =>
            /\ Rejected => /\ k # config.number_of_gpus
                           /\ OnlyZoneListing
                           /\ Len(apiLog) = Len(Pages(ZoneItems))
            /\ PastValidation => k = config.number_of_gpus
            /\ error # "ValueError"

\* a2-highgpu-16g with another number_of_gpus was rejected, after zone discovery
C7_Witness ==
    /\ Rejected
    /\ config.machine_type = HighGpuType(16)
    /\ config.number_of_gpus # 16
    /\ apiLog # <<>>
    /\ OnlyZoneListing

\* the scripted answer that is the first not to be a success, 0 when there is none
FirstFailure ==
    LET bad == {k \in 1..Len(insertScript) : insertScript[k] # "OK"}
    IN  IF bad = {} THEN 0 ELSE CHOOSE k \in bad : \A h \in bad : k <= h

\* C8 (as claimed): when the cloud answers an insert of the run with an HTTP
\* error that is not a 403 "Quota exceeded" (another 403, or another status),
\* create_instance does not return normally.
C8_OtherHttpErrorsFatal ==
    ( /\ FirstFailure # 0
      /\ FirstFailure <= config.number_of_instances
      /\ insertScript[FirstFailure] \in {"OTHER403", "HTTP500"} )
    => ~ReturnedNormally

\* C9 (as claimed): when create_instance returns short of the target and no
\* quota signal abandoned a region, every zone with a quota record was the
\* target of an insert request, and every insert carries the name built for
\* the zone it is sent to.
C9_ZonesTriedInTurn ==
    ( /\ pc = "return"
      /\ instances < config.number_of_instances
      /\ \A k \in 1..Len(Inserts) : Inserts[k].result # "QUOTA403" )
    => /\ \A z \in 1..Len(accelerators) :
             \E k \in 1..Len(Inserts) : Inserts[k].zone = accelerators[z].zone
       /\ \A k \in 1..Len(Inserts) :
             \E n \in 0..config.number_of_instances :
                Inserts[k].name = InstanceName(config.name, n, Inserts[k].zone)

\* C10: the counter equals the number of created-instance records; the records
\* are, one for one and in order, the insert requests whose operation finished
\* without error; the recorded names are pairwise distinct.
C10_CounterMatchesRecords ==
    /\ instances = Len(created_instances)
    /\ created_instances = Target_of(OkInserts)
    /\ \A a, b \in 1..Len(created_instances) :
          a # b => created_instances[a].name # created_instances[b].name

\* the loop over range(number_of_instances) ran to its end in a second region
C10_Witness ==
    /\ pc = "region_end"
    /\ regions_attempted = 1
    /\ j = config.number_of_instances
    /\ j >= 2
    /\ instances = Len(created_instances)

====
